---- MODULE Spec2Model ----
(***************************************************************************)
(* grocy_import.py: fetch product records per category, normalise and      *)
(* validate them, drop what the inventory already knows, dedupe, cap,      *)
(* write the CSV file and optionally create the products in Grocy.         *)
(*                                                                         *)
(* Python strings are modelled as sequences of one-character strings, so   *)
(* that strip(), split(), replace() and title() are computed and not       *)
(* assumed.  Python's None (a missing key, a JSON null) is the value None. *)
(***************************************************************************)
EXTENDS Integers, Sequences, FiniteSets, TLC

\* ------------------------------------------------------------------ bounds
\* categories processed per run (a prefix of CATEGORIES)
NumCats == 2
\* records one search request returns at most
MaxFetch == 1
\* runs of the program against the same inventory (SpecRuns)
MaxRuns == 2

\* ------------------------------------------------------- program constants
\* cfg["grocy"].getint("limit", 200)
DefaultLimit == 200
\* max(10, ...) in per_cat
MinPerCat == 10
CATEGORIES ==
  << "Getraenke", "Tiefkuehlprodukte", "Backzutaten", "Grundnahrungsmittel",
     "Pasta und Reis", "Konserven", "Obst", "Gemuese", "Internationale Kueche",
     "Hygiene", "Drogerie", "Putzmittel", "Haushaltswaren" >>

\* the categories a run of the model walks through, by position in CATEGORIES
Cats == 1..NumCats

CatNames == {CATEGORIES[c] : c \in Cats}

\* ------------------------------------------------------------------ strings
None == << "<None>" >>

Whitespace == {" ", "\t", "\n"}

Digits == {"0", "1", "2", "3", "4", "5", "6", "7", "8", "9"}

LowerLetters == << "a","b","c","d","e","f","g","h","i","j","k","l","m",
                   "n","o","p","q","r","s","t","u","v","w","x","y","z" >>

UpperLetters == << "A","B","C","D","E","F","G","H","I","J","K","L","M",
                   "N","O","P","Q","R","S","T","U","V","W","X","Y","Z" >>

IsLower(c) == \E i \in 1..Len(LowerLetters) : LowerLetters[i] = c

IsUpper(c) == \E i \in 1..Len(UpperLetters) : UpperLetters[i] = c

IsCased(c) == IsLower(c) \/ IsUpper(c)

ToUpper(c) ==
  IF IsLower(c)
  THEN UpperLetters[CHOOSE i \in 1..Len(LowerLetters) : LowerLetters[i] = c]
  ELSE c

ToLower(c) ==
  IF IsUpper(c)
  THEN LowerLetters[CHOOSE i \in 1..Len(UpperLetters) : UpperLetters[i] = c]
  ELSE c

\* Python truthiness of an Optional[str]
Truthy(s) == s # None /\ s # << >>

\* a or b
PyOr(a, b) == IF Truthy(a) THEN a ELSE b

RECURSIVE lstrip(_)
lstrip(s) ==
  IF s # << >> /\ Head(s) \in Whitespace THEN lstrip(Tail(s)) ELSE s

RECURSIVE rstrip(_)
rstrip(s) ==
  IF s # << >> /\ s[Len(s)] \in Whitespace
  THEN rstrip(SubSeq(s, 1, Len(s) - 1))
  ELSE s

\* str.strip()
strip(s) == rstrip(lstrip(s))

\* s.split(sep)[0]: the text before the first separator
RECURSIVE split_first(_, _)
split_first(s, sep) ==
  IF s = << >> \/ Head(s) = sep
  THEN << >>
  ELSE << Head(s) >> \o split_first(Tail(s), sep)

\* s.split(sep)[-1]: the text after the last separator
RECURSIVE split_last(_, _)
split_last(s, sep) ==
  IF s = << >> THEN << >>
  ELSE IF s[Len(s)] = sep THEN << >>
  ELSE split_last(SubSeq(s, 1, Len(s) - 1), sep) \o << s[Len(s)] >>

\* s.replace(old, new) for one-character old and new
replace(s, old, new) == [i \in 1..Len(s) |-> IF s[i] = old THEN new ELSE s[i]]

\* str.title(): a cased character is upper case after an uncased one (or at
\* the start) and lower case after a cased one
title(s) ==
  [i \in 1..Len(s) |->
     IF i > 1 /\ IsCased(s[i - 1]) THEN ToLower(s[i]) ELSE ToUpper(s[i])]

\* ------------------------------------------------------------ pure helpers
\* re.fullmatch(r"\d{8}|\d{12,14}", s)
fullmatch_barcode(s) ==
  /\ Len(s) \in {8, 12, 13, 14}
  /\ \A i \in 1..Len(s) : s[i] \in Digits

valid_barcode(code) == Truthy(code) /\ fullmatch_barcode(strip(code))

Placeholder ==
  << "U","n","b","e","n","a","n","n","t","e","s"," ","P","r","o","d","u","k","t" >>

normalize_name(p) ==
  LET n0 == PyOr(PyOr(p.product_name_de, p.product_name), << >>)
      n1 == strip(n0)
      tags == p.categories_tags
      n2 == IF n1 = << >> /\ tags # << >>
            THEN title(replace(split_last(tags[1], ":"), "-", " "))
            ELSE n1
  IN  IF n2 # << >> THEN n2 ELSE Placeholder

\* product_to_row (main() always passes a category of CATEGORIES, so that
\* `category or "Unbekannt"` is the category): << >> for None (a rejected record), << row >> for a row
product_to_row(p, category) ==
  IF ~valid_barcode(p.code)
  THEN << >>
  ELSE << [ name     |-> normalize_name(p),
         barcode  |-> strip(p.code),
         brand    |-> strip(split_first(PyOr(p.brands, << >>), ",")),
         store    |-> strip(split_first(PyOr(p.stores, << >>), ",")),
         quantity |-> PyOr(p.quantity, << >>),
         cat      |-> category ] >>

RECURSIVE dedupe_from(_, _)
dedupe_from(rows, seen) ==
  IF rows = << >> THEN << >>
  ELSE LET bc == Head(rows).barcode
       IN  IF Truthy(bc) /\ bc \notin seen
           THEN << Head(rows) >> \o dedupe_from(Tail(rows), seen \cup {bc})
           ELSE dedupe_from(Tail(rows), seen)

dedupe_keep_all(rows) == rows

dedupe(rows) == dedupe_from(rows, {})

\* rows[:n] with Python's meaning of a negative n
PySlice(rows, n) ==
  IF n >= 0
  THEN SubSeq(rows, 1, IF n < Len(rows) THEN n ELSE Len(rows))
  ELSE SubSeq(rows, 1, IF Len(rows) + n > 0 THEN Len(rows) + n ELSE 0)

\* limit = args.limit or cfg["grocy"].getint("limit", 200); an absent value
\* is the empty set, a given value v the set {v}
ini_getint(ini_limit) ==
  IF ini_limit = {} THEN DefaultLimit ELSE CHOOSE v \in ini_limit : TRUE

limit_of(args_l, ini_l) ==
  IF args_l # {} /\ (CHOOSE v \in args_l : TRUE) # 0
  THEN CHOOSE v \in args_l : TRUE
  ELSE ini_getint(ini_l)

\* do_import = args.do_import or (ini_import and not args.no_import)
do_import_of(a_import, i_import, a_no_import) ==
  a_import \/ (i_import /\ ~a_no_import)

config_missing_both(url, key) == url = << >> /\ key = << >>

\* if not grocy_url or not api_key
config_missing(url, key) == url = << >> \/ key = << >>

\* per_cat = max(10, limit // len(CATEGORIES))
per_cat(lim) ==
  IF lim \div Len(CATEGORIES) > MinPerCat
  THEN lim \div Len(CATEGORIES)
  ELSE MinPerCat

\* --------------------------------------------------------------- inventory
A8 == << "4","0","1","2","3","4","5","6" >>

C13 == << "4","0","0","6","3","8","1","3","3","3","9","3","1" >>

C13pad == << " " >> \o C13 \o << " " >>

\* the barcode strings the inventory's product_barcodes table may hold
InvCodes == {A8, C13, C13pad}

fetch_existing_nostrip(data) == {b \in InvCodes : data[b] > 0}

\* { str(x["barcode"]).strip() for x in data if str(x["barcode"]).strip() }
fetch_existing_barcodes(data) ==
  {strip(b) : b \in {c \in InvCodes : data[c] > 0}} \ {<< >>}

\* ------------------------------------------------------------- raw records
Milch == << "M","i","l","c","h" >>

RecA ==
  [ code |-> A8, product_name_de |-> Milch, product_name |-> None,
    categories_tags |-> << >>,
    brands |-> << "B","i","o",","," ","X" >>, stores |-> None,
    quantity |-> << "1"," ","l" >> ]

RecApad ==
  [ code |-> << " " >> \o A8 \o << "\n" >>,
    product_name_de |-> << " " >>, product_name |-> Milch,
    categories_tags |-> << >>,
    brands |-> None, stores |-> << " ","R","e","w","e",",","A" >>,
    quantity |-> None ]

RecC ==
  [ code |-> C13, product_name_de |-> None, product_name |-> << >>,
    categories_tags |-> << << "e","n",":","s","o","y","-","m","i","l","k" >> >>,
    brands |-> << >>, stores |-> << >>, quantity |-> << >> ]

RecBad ==
  [ code |-> << "1","2","3","4","5","6","7","8","9" >>,
    product_name_de |-> Milch, product_name |-> Milch,
    categories_tags |-> << >>,
    brands |-> None, stores |-> None, quantity |-> None ]

\* what a search request of Spec may return
RawRecords == {RecA, RecApad, RecC, RecBad}

\* what a search request of SpecRuns may return
RunRecords == {RecA, RecC}

SeqsUpTo(S, n) == UNION {[1..k -> S] : k \in 0..n}

\* ------------------------------------------------------------------- state
VARIABLES
  pc,            \* position in main()
  run,           \* number of the current run
  grocy_url, api_key, args_limit, ini_limit,
  limit, do_import,
  existing,      \* {} before line 251, {the snapshot} after
  cat_idx,       \* position of the for loop of line 259
  all_rows, stats_total, stats_cat,
  csv_file,      \* {} while not written, {rows} once written
  row_idx,       \* position of the for loop of line 290
  exit_code,     \* {} while running, {code} at process exit
  inv_barcodes,  \* Grocy's product_barcodes table: barcode string -> entries
  accepted,      \* history: all_rows as it was before line 279
  fetched,       \* history: the raw records the searches of this run returned
  attempts,      \* history: the barcodes create_product was called with
  n_created,     \* history: create_product calls that returned a product id
  n_snapshot,    \* history: GET /api/objects/product_barcodes requests
  n_search,      \* history: search requests
  inv_posted,    \* history: a POST was issued to the inventory
  prev_ok,       \* history: the previous run imported all it wrote
  prev_uncut,    \* history: ... and its limit cut no accepted row
  prev_fetched,  \* history: ... and these are the records it fetched
  name_in, name_out   \* normalize_name's argument and result (SpecName)

cfg_vars == << grocy_url, api_key, args_limit, ini_limit, limit, do_import >>

stat_vars == << stats_total, stats_cat >>

prev_vars == << prev_fetched, prev_ok, prev_uncut >>

name_vars == << name_in, name_out >>

vars ==
  << pc, run, cfg_vars, existing, cat_idx, all_rows, stat_vars, csv_file,
     row_idx, exit_code, inv_barcodes, accepted, fetched, attempts, n_created,
     n_snapshot, n_search, inv_posted, prev_vars, name_vars >>

ZeroStats == [new |-> 0, skip |-> 0, imported |-> 0]

Url == << "h","t","t","p" >>

Key == << "k" >>

NoName ==
  [ product_name_de |-> None, product_name |-> None, categories_tags |-> << >> ]

\* the state of a process that has just started
RunStart ==
  /\ pc = "start"
  /\ grocy_url = << >> /\ api_key = << >>
  /\ args_limit = {} /\ ini_limit = {}
  /\ limit = 0 /\ do_import = FALSE
  /\ existing = {}
  /\ cat_idx = 1
  /\ all_rows = << >>
  /\ stats_total = ZeroStats
  /\ stats_cat = [c \in CatNames |-> ZeroStats]
  /\ csv_file = {}
  /\ row_idx = 1
  /\ exit_code = {}
  /\ accepted = << >> /\ fetched = {} /\ attempts = << >> /\ n_created = 0
  /\ n_snapshot = 0 /\ n_search = 0 /\ inv_posted = FALSE

\* an inventory in which no identifier is associated twice
InitInventory ==
  /\ inv_barcodes \in [InvCodes -> {0, 1}]
  /\ inv_barcodes[C13] = 0

Init ==
  /\ RunStart
  /\ run = 1
  /\ InitInventory
  /\ prev_fetched = {} /\ prev_ok = FALSE /\ prev_uncut = FALSE
  /\ name_in = NoName /\ name_out = None

\* ----------------------------------------------------------------- actions
\* the process ends: sys.exit(code), or the handlers of lines 311-315
Exit(code) ==
  /\ pc' = "exit"
  /\ exit_code' = {code}

\* lines 219-221: no INI file
ConfigFileMissing ==
  /\ pc = "start"
  /\ Exit(2)
  /\ UNCHANGED << run, cfg_vars, existing, cat_idx, all_rows, stat_vars,
                  csv_file, row_idx, inv_barcodes, accepted, fetched, attempts,
                  n_created, n_snapshot, n_search, inv_posted, prev_vars,
                  name_vars >>

\* lines 223-246: read the configuration, resolve limit and import mode,
\* leave with code 2 when the URL or the key is missing
ParseConfig ==
  /\ pc = "start"
  /\ \E url \in {<< >>, << " " >>, Url}, key \in {<< >>, Key},
        al \in {{}, {0}}, il \in {{}, {1}},
        a_import \in BOOLEAN, i_import \in BOOLEAN, a_no_import \in BOOLEAN :
       /\ grocy_url' = strip(url)
       /\ api_key' = strip(key)
       /\ args_limit' = al
       /\ ini_limit' = il
       /\ limit' = limit_of(al, il)
       /\ do_import' = do_import_of(a_import, i_import, a_no_import)
       /\ IF config_missing(strip(url), strip(key))
          THEN Exit(2)
          ELSE pc' = "snapshot" /\ exit_code' = exit_code
  /\ UNCHANGED << run, existing, cat_idx, all_rows, stat_vars, csv_file,
                  row_idx, inv_barcodes, accepted, fetched, attempts,
                  n_created, n_snapshot, n_search, inv_posted, prev_vars,
                  name_vars >>

\* lines 249-252: existing = api.fetch_existing_barcodes(); a failed request
\* raises out of main() and the process ends with code 1
FetchExisting ==
  /\ pc = "snapshot"
  /\ n_snapshot' = n_snapshot + 1
  /\ \/ /\ existing' = {fetch_existing_barcodes(inv_barcodes)}
        /\ pc' = "cats"
        /\ exit_code' = exit_code
     \/ /\ existing' = existing
        /\ Exit(1)
  /\ UNCHANGED << run, cfg_vars, cat_idx, all_rows, stat_vars, csv_file,
                  row_idx, inv_barcodes, accepted, fetched, attempts,
                  n_created, n_search, inv_posted, prev_vars, name_vars >>

Snapshot == CHOOSE s \in existing : TRUE

\* lines 261-276, the body of the inner loop over one category's products;
\* acc = [rows, cat, total]: all_rows, stats_cat[cat] and stats_total
RECURSIVE process_products(_, _, _, _)
process_products(products, cat, exist, acc) ==
  IF products = << >> THEN acc
  ELSE
    LET r == product_to_row(Head(products), cat)
        next ==
          IF r = << >>
          THEN [acc EXCEPT !.cat.skip = @ + 1]
          ELSE IF r[1].barcode \in exist
          THEN [acc EXCEPT !.cat.skip = @ + 1, !.total.skip = @ + 1]
          ELSE [acc EXCEPT !.rows = Append(@, r[1]),
                           !.cat.new = @ + 1, !.total.new = @ + 1]
    IN  process_products(Tail(products), cat, exist, next)

\* lines 259-277, one iteration: one search request (fetch_category returns
\* [] when the request fails) and the processing of what it returned
ProcessCategory(Records) ==
  /\ pc = "cats"
  /\ cat_idx <= NumCats
  /\ \E products \in SeqsUpTo(Records, MaxFetch), failed \in BOOLEAN :
       /\ Len(products) <= per_cat(limit)
       /\ failed => products = << >>
       /\ LET cat == CATEGORIES[cat_idx]
              res == process_products(products, cat, Snapshot,
                       [rows |-> all_rows, cat |-> stats_cat[cat],
                        total |-> stats_total])
          IN  /\ all_rows' = res.rows
              /\ stats_cat' = [stats_cat EXCEPT ![cat] = res.cat]
              /\ stats_total' = res.total
       /\ fetched' = fetched \cup {products[i] : i \in 1..Len(products)}
  /\ n_search' = n_search + 1
  /\ cat_idx' = cat_idx + 1
  /\ UNCHANGED << pc, run, cfg_vars, existing, csv_file, row_idx, exit_code,
                  inv_barcodes, accepted, attempts, n_created, n_snapshot,
                  inv_posted, prev_vars, name_vars >>

writerows_unless_import(rows) == IF do_import THEN << >> ELSE rows

\* line 284: w.writerows(all_rows): the rows the file holds
writerows(rows) == rows

\* lines 279-286: dedupe, truncate, write the CSV file (open() or write may
\* raise), then decide whether the import runs
WriteCsv ==
  /\ pc = "cats"
  /\ cat_idx > NumCats
  /\ accepted' = all_rows
  /\ all_rows' = PySlice(dedupe(all_rows), limit)
  /\ \/ /\ csv_file' = {writerows(all_rows')}
        /\ pc' = IF do_import /\ all_rows' # << >> THEN "ensure_unit"
                 ELSE "summary"
        /\ exit_code' = exit_code
     \/ /\ csv_file' = csv_file
        /\ Exit(1)
  /\ UNCHANGED << run, cfg_vars, existing, cat_idx, stat_vars, row_idx,
                  inv_barcodes, fetched, attempts, n_created, n_snapshot,
                  n_search, inv_posted, prev_vars, name_vars >>

\* lines 144-156: ensure_unit / ensure_location: list the entities (the list
\* is the inventory's, and whether the name is in it is an input), create the
\* entity when it is absent; any failed request raises out of main()
Ensure(here, there) ==
  /\ pc = here
  /\ \E get_ok \in BOOLEAN, found \in BOOLEAN, post_ok \in BOOLEAN :
       /\ inv_posted' = (inv_posted \/ (get_ok /\ ~found))
       /\ IF get_ok /\ (found \/ post_ok)
          THEN pc' = there /\ exit_code' = exit_code
          ELSE Exit(1)
  /\ UNCHANGED << run, cfg_vars, existing, cat_idx, all_rows, stat_vars,
                  csv_file, row_idx, inv_barcodes, accepted, fetched, attempts,
                  n_created, n_snapshot, n_search, prev_vars, name_vars >>

EnsureUnit == Ensure("ensure_unit", "ensure_location")

EnsureLocation == Ensure("ensure_location", "create")

\* what one _post can do: return, raise requests.HTTPError (raise_for_status),
\* or raise something else (no connection, a timeout, a body that is no JSON)
PostOutcomes == {"ok", "HTTPError", "other"}

\* lines 171-176 of create_product: what the call does, given what its two
\* POSTs did (the second is sent only when the first returned)
create_product_result(p1, p2) ==
  IF p1 = "ok" /\ p2 = "ok" THEN "pid"
  ELSE IF p1 = "HTTPError" \/ (p1 = "ok" /\ p2 = "HTTPError") THEN "None"
  ELSE "raise"

\* lines 290-294 with create_product (162-176), one iteration: POST the
\* product, then POST the barcode; HTTPError is caught and None returned, any
\* other exception leaves main().  stored: the inventory stored the barcode
\* (it did when the request returned, it did not when it answered with an
\* error status, and it may have when the connection broke).  The products
\* table of the inventory is never read by the program and is not kept here.
CreateProduct ==
  /\ pc = "create"
  /\ row_idx <= Len(all_rows)
  /\ LET r == all_rows[row_idx] IN
     \E p1 \in PostOutcomes, p2 \in PostOutcomes, stored \in BOOLEAN :
       /\ p1 # "ok" => p2 = "ok" /\ ~stored
       /\ p1 = "ok" /\ p2 = "ok" => stored
       /\ p1 = "ok" /\ p2 = "HTTPError" => ~stored
       /\ attempts' = Append(attempts, r.barcode)
       /\ inv_posted' = TRUE
       /\ inv_barcodes' =
            IF stored THEN [inv_barcodes EXCEPT ![r.barcode] = @ + 1]
            ELSE inv_barcodes
       /\ IF create_product_result(p1, p2) = "raise"
          THEN /\ Exit(1)
               /\ UNCHANGED << stat_vars, n_created, row_idx >>
          ELSE /\ pc' = pc /\ exit_code' = exit_code
               /\ row_idx' = row_idx + 1
               /\ IF create_product_result(p1, p2) = "pid"
                  THEN /\ n_created' = n_created + 1
                       /\ stats_total' =
                            [stats_total EXCEPT !.imported = @ + 1]
                       /\ stats_cat' =
                            [stats_cat EXCEPT ![r.cat].imported = @ + 1]
                  ELSE UNCHANGED << stat_vars, n_created >>
  /\ UNCHANGED << run, cfg_vars, existing, cat_idx, all_rows, csv_file,
                  accepted, fetched, n_snapshot, n_search, prev_vars,
                  name_vars >>

\* line 290: the loop is over
ImportDone ==
  /\ pc = "create"
  /\ row_idx > Len(all_rows)
  /\ pc' = "summary"
  /\ UNCHANGED << run, cfg_vars, existing, cat_idx, all_rows, stat_vars,
                  csv_file, row_idx, exit_code, inv_barcodes, accepted,
                  fetched, attempts, n_created, n_snapshot, n_search,
                  inv_posted, prev_vars, name_vars >>

\* lines 296-306: print the statistics; main() returns, exit code 0
Summary ==
  /\ pc = "summary"
  /\ pc' = "done"
  /\ exit_code' = {0}
  /\ UNCHANGED << run, cfg_vars, existing, cat_idx, all_rows, stat_vars,
                  csv_file, row_idx, inv_barcodes, accepted, fetched, attempts,
                  n_created, n_snapshot, n_search, inv_posted, prev_vars,
                  name_vars >>

\* the run that has ended was in import mode, reached its summary, and every
\* create_product call of it returned a product id
RunImportedAll == pc = "done" /\ do_import /\ n_created = Len(all_rows)

\* the program is started again, after the previous process has ended,
\* against the inventory as that run left it
NewRun ==
  /\ pc \in {"done", "exit"}
  /\ run < MaxRuns
  /\ run' = run + 1
  /\ prev_ok' = RunImportedAll
  /\ prev_uncut' = (RunImportedAll /\ Len(all_rows) = Len(dedupe(accepted)))
  /\ prev_fetched' = IF RunImportedAll THEN fetched ELSE {}
  /\ pc' = "start"
  /\ grocy_url' = << >> /\ api_key' = << >>
  /\ args_limit' = {} /\ ini_limit' = {}
  /\ limit' = 0 /\ do_import' = FALSE
  /\ existing' = {}
  /\ cat_idx' = 1
  /\ all_rows' = << >>
  /\ stats_total' = ZeroStats
  /\ stats_cat' = [c \in CatNames |-> ZeroStats]
  /\ csv_file' = {}
  /\ row_idx' = 1
  /\ exit_code' = {}
  /\ accepted' = << >> /\ fetched' = {} /\ attempts' = << >> /\ n_created' = 0
  /\ n_snapshot' = 0 /\ n_search' = 0 /\ inv_posted' = FALSE
  /\ UNCHANGED << inv_barcodes, name_vars >>

Next ==
  \/ ConfigFileMissing
  \/ ParseConfig
  \/ FetchExisting
  \/ ProcessCategory(RawRecords)
  \/ WriteCsv
  \/ EnsureUnit
  \/ EnsureLocation
  \/ CreateProduct
  \/ ImportDone
  \/ Summary

Spec == Init /\ [][Next]_vars

NextRuns ==
  \/ ConfigFileMissing
  \/ ParseConfig
  \/ FetchExisting
  \/ ProcessCategory(RunRecords)
  \/ WriteCsv
  \/ EnsureUnit
  \/ EnsureLocation
  \/ CreateProduct
  \/ ImportDone
  \/ Summary
  \/ NewRun

SpecRuns == Init /\ [][NextRuns]_vars

\* --------------------------------------------------- normalize_name alone
NameValues == {None, << >>, << " " >>, Milch, << " ","S","o","j","a","\t" >>}

TagLists ==
  { << >>,
    << << "e","n",":","s","o","y","-","m","i","l","k" >>, << "x" >> >>,
    << << "e","n",":" >> >>,
    << << "t","o","F","U","-","-","b","i","o" >> >> }

NameInputs ==
  [ product_name_de : NameValues, product_name : NameValues,
    categories_tags : TagLists ]

InitName ==
  /\ RunStart
  /\ run = 1
  /\ inv_barcodes = [c \in InvCodes |-> 0]
  /\ prev_fetched = {} /\ prev_ok = FALSE /\ prev_uncut = FALSE
  /\ name_in \in NameInputs
  /\ name_out = None

\* a call of normalize_name(p)
NormalizeName ==
  /\ pc = "start"
  /\ pc' = "named"
  /\ name_out' = normalize_name(name_in)
  /\ UNCHANGED << run, cfg_vars, existing, cat_idx, all_rows, stat_vars,
                  csv_file, row_idx, exit_code, inv_barcodes, accepted,
                  fetched, attempts, n_created, n_snapshot, n_search,
                  inv_posted, prev_vars, name_in >>

NextName == NormalizeName

SpecName == InitName /\ [][NextName]_vars

\* -------------------------------------------------------------- properties
Barcodes(rows) == [i \in 1..Len(rows) |-> rows[i].barcode]

IsPrefix(a, b) == Len(a) <= Len(b) /\ a = SubSeq(b, 1, Len(a))

\* an identifier as the specification defines it: trimmed, all digits, of
\* length 8 or 12 to 14
IsIdentifier(b) ==
  /\ b # None
  /\ b # << >>
  /\ Head(b) \notin Whitespace /\ b[Len(b)] \notin Whitespace
  /\ \A i \in 1..Len(b) : b[i] \in Digits
  /\ Len(b) = 8 \/ (Len(b) >= 12 /\ Len(b) <= 14)

\* the batch main() holds after line 279, once it exists
Batch == IF accepted = << >> THEN << >> ELSE all_rows

\* C1: every row of the written file (and of the batch held after the
\* dedupe-and-truncate step) has a syntactically valid identifier that is
\* not in the snapshot of known identifiers and differs from the identifier
\* of every other written row.
C1_WrittenRowsValidFreshUnique ==
  \A rows \in csv_file \cup {Batch} :
    \A i \in 1..Len(rows) :
      /\ IsIdentifier(rows[i].barcode)
      /\ rows[i].barcode \notin Snapshot
      /\ \A j \in 1..Len(rows) : j # i => rows[j].barcode # rows[i].barcode

\* a file of one row written from two accepted records that carry the same
\* identifier (once padded with whitespace), while the inventory knew another
C1_Witness ==
  /\ csv_file # {}
  /\ \A rows \in csv_file : Len(rows) = 1 /\ rows[1].barcode = A8
  /\ Len(accepted) = 2
  /\ existing = {{C13}}

\* the limit the user configured: --limit when given, else the INI's limit,
\* else the default
ConfiguredLimit ==
  IF args_limit # {} THEN CHOOSE v \in args_limit : TRUE
  ELSE ini_getint(ini_limit)

\* C2: the written file never holds more rows than the configured global
\* limit, and holds exactly the first rows of the deduplicated accepted
\* sequence.
C2_WrittenWithinConfiguredLimit ==
  \A rows \in csv_file :
    /\ Len(rows) <= ConfiguredLimit
    /\ IsPrefix(rows, dedupe(accepted))

\* C3: create_product is never called when import mode is off; when it is on,
\* a run that has started creating and has ended has called it for every
\* written row, once each and in order, and at any time the calls made are
\* the first written rows.
C3_CreateSequence ==
  /\ ~do_import => attempts = << >>
  /\ IsPrefix(attempts, Barcodes(all_rows))
  /\ (do_import /\ attempts # << >> /\ exit_code # {})
       => attempts = Barcodes(all_rows)

\* C4: a failing create_product is a value, not an exception: a run that has
\* called create_product ends at its summary with exit code 0, having tried
\* every written row, and its imported counter is the number of calls that
\* succeeded.
C4_CreateFailureNotRaised ==
  (attempts # << >> /\ exit_code # {})
    => /\ pc = "done"
       /\ exit_code = {0}
       /\ Len(attempts) = Len(all_rows)
       /\ stats_total.imported = n_created

\* C5: the file is written, with all the rows of the batch, before the first
\* write to the inventory, and what it holds is decided by the accepted rows
\* and the limit alone: not by the import mode, not by what the creates did.
C5_FileIndependentOfImport ==
  /\ inv_posted => csv_file # {}
  /\ pc \in {"ensure_unit", "ensure_location", "create", "summary", "done"}
       => csv_file # {}
  /\ \A rows \in csv_file : rows = PySlice(dedupe(accepted), limit)

\* import mode on, two rows written, the first create failed and the second
\* succeeded: both rows are in the file
C5_Witness ==
  /\ pc = "done"
  /\ do_import
  /\ Len(attempts) = 2
  /\ n_created = 1
  /\ stats_cat[CATEGORIES[1]].imported = 0
  /\ csv_file = {all_rows}
  /\ Len(all_rows) = 2

C6_State ==
  /\ n_snapshot <= 1
  /\ n_search > 0 => n_snapshot = 1 /\ existing # {}
  /\ (n_snapshot = 1 /\ existing = {})
       => /\ pc = "exit" /\ exit_code # {} /\ 0 \notin exit_code
          /\ n_search = 0 /\ csv_file = {} /\ ~inv_posted
  /\ (pc # "start" /\ (grocy_url = << >> \/ api_key = << >>))
       => /\ pc = "exit" /\ exit_code # {} /\ 0 \notin exit_code
          /\ n_snapshot = 0 /\ n_search = 0 /\ csv_file = {} /\ ~inv_posted

\* C6: the snapshot is requested at most once, before any search request,
\* and never changes once loaded; a failed snapshot request, and a missing
\* URL or key, end the process with a nonzero code with no search request
\* issued, no file written and nothing posted to the inventory (and, for the
\* missing configuration, no request at all).
C6_SnapshotOnceAndFatal ==
  /\ []C6_State
  /\ [][existing # {} => existing' = existing]_vars

\* the snapshot request failed
C6_Witness ==
  /\ n_snapshot = 1
  /\ existing = {}
  /\ pc = "exit"
  /\ exit_code = {1}

\* the entries of the inventory that carry identifier id
AssocCount(id) ==
  LET hit(c) == IF strip(c) = id THEN inv_barcodes[c] ELSE 0
  IN  hit(A8) + hit(C13) + hit(C13pad)

\* no identifier is associated with two entries, and the identifiers the
\* import still has to associate are associated with none
NoDoubleAssociation ==
  /\ \A id \in {A8, C13} : AssocCount(id) <= 1
  /\ pc = "create" =>
       \A k \in row_idx..Len(all_rows) : AssocCount(all_rows[k].barcode) = 0

\* C7 as stated: no identifier is ever associated twice, and a run over the
\* records of the previous run, which imported and whose creates all
\* succeeded, creates nothing.
C7_AsStated ==
  /\ NoDoubleAssociation
  /\ (prev_ok /\ fetched = prev_fetched) => attempts = << >>

\* C7 amended: ... a run over the records of the previous run, which imported,
\* whose creates all succeeded and whose accepted rows all fitted under the
\* limit, creates nothing.
C7_IdempotentAcrossRuns ==
  /\ NoDoubleAssociation
  /\ (prev_ok /\ prev_uncut /\ fetched = prev_fetched) => attempts = << >>

\* the second run, in import mode, over the two records the first run
\* fetched and created: it ends having created nothing
C7_Witness ==
  /\ run = 2
  /\ prev_ok /\ prev_uncut
  /\ fetched = prev_fetched
  /\ fetched = {RecA, RecC}
  /\ inv_barcodes[C13] = 1
  /\ do_import
  /\ pc = "done"
  /\ attempts = << >>

RECURSIVE SumCats(_, _)
SumCats(n, k) ==
  IF n = 0 THEN 0 ELSE stats_cat[CATEGORIES[n]][k] + SumCats(n - 1, k)

\* C8: at the end of a run each aggregate counter is the sum of the
\* per-category counters.
C8_TotalsAreSums ==
  pc = "done" =>
    \A k \in {"new", "skip", "imported"} : stats_total[k] = SumCats(NumCats, k)

\* C9: the aggregate new counter is the number of rows of the accepted batch
\* before the cap: valid, not known to the inventory, first of its identifier.
C9_NewCountsAccepted ==
  pc = "done" => stats_total.new = Len(dedupe(accepted))

\* the candidates of name resolution, in order, each trimmed
NameCandidates(p) ==
  << IF p.product_name_de = None THEN << >> ELSE strip(p.product_name_de),
     IF p.product_name = None THEN << >> ELSE strip(p.product_name),
     IF p.categories_tags = << >> THEN << >>
     ELSE title(replace(split_last(p.categories_tags[1], ":"), "-", " ")),
     Placeholder >>

FirstNonEmpty(cands) ==
  cands[CHOOSE i \in 1..Len(cands) :
          /\ cands[i] # << >>
          /\ \A j \in 1..(i - 1) : cands[j] = << >>]

\* C10: the resolved name is the first non-empty candidate among localized
\* name, generic name, humanized first category tag and placeholder, and is
\* never the empty string.
C10_FirstNonEmptyName ==
  pc = "named" =>
    /\ name_out = FirstNonEmpty(NameCandidates(name_in))
    /\ name_out # << >>

====
